---- MODULE Spec2Model ----
(***************************************************************************)
(* The reservation engine (apps/bookings) and the token issuer             *)
(* (apps/authentication) of the relocation-planning backend.               *)
(*                                                                         *)
(* Every view runs in a request worker.  Django runs in autocommit mode    *)
(* and the views open no transaction and take no lock, so every ORM        *)
(* statement (get, filter().exists(), create, save) is one atomic step     *)
(* and the statements of two requests interleave freely.  Model.save()     *)
(* writes every field of the in-memory instance.                           *)
(***************************************************************************)
EXTENDS Naturals, Sequences, FiniteSets

VARIABLES
    moves,      \* table moves: move id -> row
    bookings,   \* table bookings: sequence of rows, the id is the index
    slots,      \* table time_slots: slot id -> is_active
    calendar,   \* the external calendar: the set of events inserted so far
    req,        \* booking-side request workers: position, locals, response
    users,      \* table users: user id -> row
    evTokens,   \* table EmailVerificationToken, the token value is the index
    prTokens,   \* table PasswordResetToken, the token value is the index
    evSuccess,  \* history: successful verify_email responses per token
    prSuccess,  \* history: successful reset_password responses per token
    now,        \* the clock
    areq,       \* authentication-side request workers
    sessions    \* the users a JWT pair was issued to

bookVars == <<moves, bookings, slots, calendar, req>>
authVars == <<users, evTokens, prTokens, evSuccess, prSuccess, now, areq, sessions>>
vars == <<moves, bookings, slots, calendar, req, users, evTokens, prTokens, evSuccess,
          prSuccess, now, areq, sessions>>

----------------------------------------------------------------------------
(* Bounds and input sets *)

MaxBookings == 2
MaxTokens == 2
MaxTime == 2

Workers == {"w1", "w2"}
Users == {"u1", "u2"}
MoveIds == {"m1", "m2"}
SlotIds == {"s1", "s2"}

STATUS_CHOICES == {"planning", "scheduled", "in_progress", "completed", "cancelled"}
ActiveStatuses == {"confirmed", "in_progress"}
TerminalStatuses == {"completed", "cancelled"}

\* request phone numbers, as sequences of characters
GoodPhone == <<"+", "1", "2", "3", "4", "5", "6", "7", "8", "9", "0">>
BadPhone == <<"1", "2", "3", "a", "b", "c", "4", "5">>
Phones == {GoodPhone, BadPhone}

\* start and end of the catalogue's slots, minutes after midnight
SlotStart(s) == IF s = "s1" THEN 600 ELSE 720
SlotEnd(s) == IF s = "s1" THEN 720 ELSE 840

MoveOwner(m) == IF m = "m1" THEN "u1" ELSE "u2"

NoMove == [user |-> "none", move_date |-> "none", status |-> "none"]
NoBooking == [user |-> "none", move |-> "none", time_slot |-> "none",
              date |-> "none", phone_number |-> <<>>, status |-> "none",
              confirmation_number |-> 0]
IdleReq == [op |-> "none", pc |-> "idle", caller |-> "none", move_id |-> "none",
            slot |-> "none", phone |-> <<>>, bid |-> 0, mv |-> NoMove,
            bk |-> NoBooking, resp |-> {}, free |-> <<>>, rows |-> {}]

\* dates of moves and of availability queries
Dates == {"d1", "d2"}

\* confirmation numbers
Codes == 1..MaxBookings

----------------------------------------------------------------------------
(* Pure helpers of the reservation engine *)

\* \d in a str pattern: every Unicode decimal digit; besides 0-9 the model has
\* ARABIC-INDIC DIGIT THREE, written by its code point
DecimalDigits == {"0", "1", "2", "3", "4", "5", "6", "7", "8", "9", "U+0663"}

\* \s in a str pattern: every Unicode whitespace character; the model has the
\* space, the tab and the newline
Whitespace == {" ", "\t", "\n"}

\* the character class [\+\d\s\-\(\)]
PhoneChars == {"+", "-", "(", ")"} \cup DecimalDigits \cup Whitespace

\* re.match(r'^[\+\d\s\-\(\)]{8,20}$', value): 8 to 20 characters of the
\* class up to the end of the string, where $ also matches just before a
\* newline that ends the string
PhoneMatches(value) ==
    LET InClass(n) == \A i \in 1..n : value[i] \in PhoneChars
    IN \/ Len(value) \in 8..20 /\ InClass(Len(value))
       \/ /\ Len(value) \in 9..21
          /\ value[Len(value)] = "\n"
          /\ InClass(Len(value) - 1)

\* half-open intervals [s1, e1) and [s2, e2) overlap
Overlaps(s1, e1, s2, e2) == s1 < e2 /\ s2 < e1

\* TimeSlot.is_available_on_date: no booking on that date with an active
\* status whose slot interval overlaps this slot's interval
is_available_on_date(bks, slot, date) ==
    ~ \E i \in 1..Len(bks) :
        /\ bks[i].date = date
        /\ bks[i].status \in ActiveStatuses
        /\ Overlaps(SlotStart(slot), SlotEnd(slot),
                    SlotStart(bks[i].time_slot), SlotEnd(bks[i].time_slot))

\* the same query with 'confirmed' left out of the status list
HasActiveBooking_InProgressOnly(bks, m) ==
    \E i \in 1..Len(bks) : bks[i].move = m /\ bks[i].status = "in_progress"

\* Booking.objects.filter(move=move, status__in=['confirmed', 'in_progress']).exists()
HasActiveBooking(bks, m) ==
    \E i \in 1..Len(bks) : bks[i].move = m /\ bks[i].status \in ActiveStatuses

\* ...filter(move=booking.move, status__in=[...]).exclude(id=booking.id).exists()
OtherActiveBooking(bks, m, b) ==
    \E i \in 1..Len(bks) :
        i # b /\ bks[i].move = m /\ bks[i].status \in ActiveStatuses

\* the status a new Booking row gets
DefaultBookingStatus == "confirmed"

InFlight(r) == r.pc \notin {"idle", "done"}

\* a served request: the locals are gone; the response, with the slot or the
\* booking id it is about, stays until the worker takes its next request
Finish(r, response) ==
    [IdleReq EXCEPT !.op = r.op, !.pc = "done", !.slot = r.slot,
                    !.bid = r.bid, !.resp = response]

BooksInFlight == Cardinality({q \in Workers : req[q].op = "book" /\ InFlight(req[q])})

----------------------------------------------------------------------------
(* book_slot: BookingCreateSerializer.is_valid(), .save(), then the response *)

\* validate_move_id: Move.objects.get(id=value, user=user)
validate_move_id(mvs, caller, m) ==
    IF mvs[m].user # caller THEN {"move_not_found"} ELSE {}

\* a validate_time_slot that lets every slot pass
validate_time_slot_Skipped(is_active) == {}

\* validate_time_slot: if not value.is_active
validate_time_slot(is_active) ==
    IF ~is_active THEN {"time_slot_inactive"} ELSE {}

\* validate_phone_number: if not re.match(pattern, value)
validate_phone_number(value) ==
    IF ~PhoneMatches(value) THEN {"phone_invalid"} ELSE {}

\* field validation that stops at the first failing check, in the order
\* slot, phone, move
BookFieldErrors_FirstOnly(caller, m, s, phone) ==
    IF validate_time_slot(slots[s]) # {} THEN validate_time_slot(slots[s])
    ELSE IF validate_phone_number(phone) # {} THEN validate_phone_number(phone)
    ELSE validate_move_id(moves, caller, m)

\* the field validators run for every field of Meta.fields, move_id,
\* time_slot, phone_number; the framework collects the errors of all fields
BookFieldErrors(caller, m, s, phone) ==
    validate_move_id(moves, caller, m)
    \cup validate_time_slot(slots[s])
    \cup validate_phone_number(phone)

\* run_validation, first half: the fields; the move row is read here
BookStart(p, caller, m, s, phone) ==
    /\ ~InFlight(req[p])
    /\ Len(bookings) + BooksInFlight < MaxBookings
    /\ LET r == [IdleReq EXCEPT !.op = "book", !.caller = caller, !.move_id = m,
                                !.slot = s, !.phone = phone]
           errs == BookFieldErrors(caller, m, s, phone)
       IN req' = [req EXCEPT ![p] =
                    IF errs # {} THEN Finish(r, errs)
                    ELSE [r EXCEPT !.pc = "b_avail", !.mv = moves[m]]]
    /\ UNCHANGED <<moves, bookings, slots, calendar>>
    /\ UNCHANGED authVars

\* validate(): time_slot.is_available_on_date(move.move_date)
BookCheckSlot(p) ==
    /\ req[p].pc = "b_avail"
    /\ req' = [req EXCEPT ![p] =
                 IF ~is_available_on_date(bookings, req[p].slot, req[p].mv.move_date)
                 THEN Finish(req[p], {"time_slot_unavailable"})
                 ELSE [req[p] EXCEPT !.pc = "b_active"]]
    /\ UNCHANGED <<moves, bookings, slots, calendar>>
    /\ UNCHANGED authVars

\* validate(): the move has no active booking yet
BookCheckMove(p) ==
    /\ req[p].pc = "b_active"
    /\ req' = [req EXCEPT ![p] =
                 IF HasActiveBooking(bookings, req[p].move_id)
                 THEN Finish(req[p], {"move_has_active_booking"})
                 ELSE [req[p] EXCEPT !.pc = "b_create"]]
    /\ UNCHANGED <<moves, bookings, slots, calendar>>
    /\ UNCHANGED authVars

\* the confirmation number a new Booking row gets: generated, and in use by
\* no other row
FreshCode(bks) ==
    CHOOSE code \in Codes :
        code \notin {bks[i].confirmation_number : i \in 1..Len(bks)}

\* the row Booking.objects.create(user=user, move=move, **validated_data) inserts
NewBooking(r, code) ==
    [user |-> r.caller, move |-> r.move_id, time_slot |-> r.slot,
     date |-> r.mv.move_date, phone_number |-> r.phone,
     status |-> DefaultBookingStatus, confirmation_number |-> code]

\* create(): Booking.objects.create(...)
BookCreate(p) ==
    /\ req[p].pc = "b_create"
    /\ bookings' = Append(bookings, NewBooking(req[p], FreshCode(bookings)))
    /\ req' = [req EXCEPT ![p] = [req[p] EXCEPT !.pc = "b_msave",
                                                !.bid = Len(bookings) + 1]]
    /\ UNCHANGED <<moves, slots, calendar>>
    /\ UNCHANGED authVars

\* the same save with the status assignment left out
ScheduledMove_StatusKept(mv) == mv

\* the move row create() saves: the instance read by validate_move_id
ScheduledMove(mv) == [mv EXCEPT !.status = "scheduled"]

\* create(): move.status = 'scheduled'; move.save()
BookSaveMove(p) ==
    /\ req[p].pc = "b_msave"
    /\ moves' = [moves EXCEPT ![req[p].move_id] = ScheduledMove(req[p].mv)]
    /\ req' = [req EXCEPT ![p] = [req[p] EXCEPT !.pc = "b_cal"]]
    /\ UNCHANGED <<bookings, slots, calendar>>
    /\ UNCHANGED authVars

\* the event book_slot builds from the booking create() returned
CalendarEvent(r) ==
    [date |-> r.mv.move_date, start |-> SlotStart(r.slot), end |-> SlotEnd(r.slot)]

\* the response of book_slot after serializer.save(): an exception of the
\* calendar block is caught and printed; send_booking_confirmation_email is
\* called outside any try, an exception it raises leaves the view
BookResponse(inserted, mailed) ==
    IF mailed THEN {"created"} ELSE {"server_error"}

\* book_slot after serializer.save(): the calendar insert, the confirmation
\* mail, the response.  inserted: events().insert() went through, or raised;
\* mailed: the mail went out, or raised
BookMirror(p, inserted, mailed) ==
    /\ req[p].pc = "b_cal"
    /\ calendar' = IF inserted THEN calendar \cup {CalendarEvent(req[p])}
                   ELSE calendar
    /\ req' = [req EXCEPT ![p] = Finish(req[p], BookResponse(inserted, mailed))]
    /\ UNCHANGED <<moves, bookings, slots>>
    /\ UNCHANGED authVars

----------------------------------------------------------------------------
(* cancel_booking *)

\* the same check with 'completed' left out of the list
CannotCancel_CancelledOnly(status) == status = "cancelled"

\* booking.status in ['completed', 'cancelled']
CannotCancel(status) == status \in {"completed", "cancelled"}

\* the rows of Booking.objects.filter(user=request.user) with no owner filter
VisibleTo_Everyone(bks, caller) == 1..Len(bks)

\* the ids of the rows of Booking.objects.filter(user=request.user)
VisibleTo(bks, caller) == {i \in 1..Len(bks) : bks[i].user = caller}

\* get_object_or_404(Booking, id=booking_id, user=request.user), status check
CancelStart(p, caller, b) ==
    /\ ~InFlight(req[p])
    /\ LET r == [IdleReq EXCEPT !.op = "cancel", !.caller = caller, !.bid = b]
       IN req' = [req EXCEPT ![p] =
                    IF b \notin VisibleTo(bookings, caller)
                    THEN Finish(r, {"not_found"})
                    ELSE IF CannotCancel(bookings[b].status)
                    THEN Finish(r, {"cannot_cancel"})
                    ELSE [r EXCEPT !.pc = "c_save", !.bk = bookings[b],
                                   !.move_id = bookings[b].move]]
    /\ UNCHANGED <<moves, bookings, slots, calendar>>
    /\ UNCHANGED authVars

\* a save that writes a new confirmation number as well
CancelledBooking_NewCode(bk) ==
    [bk EXCEPT !.status = "cancelled", !.confirmation_number = 0]

\* the row cancel_booking saves: the instance it read, with the new status
CancelledBooking(bk) == [bk EXCEPT !.status = "cancelled"]

\* booking.status = 'cancelled'; booking.save()
CancelSave(p) ==
    /\ req[p].pc = "c_save"
    /\ bookings' = [bookings EXCEPT ![req[p].bid] = CancelledBooking(req[p].bk)]
    /\ req' = [req EXCEPT ![p] = [req[p] EXCEPT !.pc = "c_move"]]
    /\ UNCHANGED <<moves, slots, calendar>>
    /\ UNCHANGED authVars

\* booking.move is fetched; if booking.move.status == 'scheduled'
CancelLoadMove(p) ==
    /\ req[p].pc = "c_move"
    /\ req' = [req EXCEPT ![p] =
                 IF moves[req[p].move_id].status = "scheduled"
                 THEN [req[p] EXCEPT !.pc = "c_other", !.mv = moves[req[p].move_id]]
                 ELSE Finish(req[p], {"cancelled"})]
    /\ UNCHANGED <<moves, bookings, slots, calendar>>
    /\ UNCHANGED authVars

\* other_bookings.exists()
CancelCheckOthers(p) ==
    /\ req[p].pc = "c_other"
    /\ req' = [req EXCEPT ![p] =
                 IF OtherActiveBooking(bookings, req[p].move_id, req[p].bid)
                 THEN Finish(req[p], {"cancelled"})
                 ELSE [req[p] EXCEPT !.pc = "c_msave"]]
    /\ UNCHANGED <<moves, bookings, slots, calendar>>
    /\ UNCHANGED authVars

\* the same save with the status assignment left out
ReopenedMove_StatusKept(mv) == mv

\* the move row cancel_booking saves
ReopenedMove(mv) == [mv EXCEPT !.status = "planning"]

\* booking.move.status = 'planning'; booking.move.save(); then the response
CancelSaveMove(p) ==
    /\ req[p].pc = "c_msave"
    /\ moves' = [moves EXCEPT ![req[p].move_id] = ReopenedMove(req[p].mv)]
    /\ req' = [req EXCEPT ![p] = Finish(req[p], {"cancelled"})]
    /\ UNCHANGED <<bookings, slots, calendar>>
    /\ UNCHANGED authVars

----------------------------------------------------------------------------
(* available_slots and get_free_slots *)

\* the working day 09:00-20:00 and the length of a grid cell, in minutes
WORK_START == 540
WORK_END == 1200
CELL == 30

\* the date strings of a query: two dates, no parameter, a malformed one
DateStrings == Dates \cup {"", "01/01/2030"}

\* datetime.strptime(date_str, "%Y-%m-%d") succeeds
DateParses(date_str) == date_str \in Dates

\* the while loop of get_free_slots: the cells from start_time to end_of_day
RECURSIVE GridFrom(_)
GridFrom(start_time) ==
    IF start_time < WORK_END
    THEN <<[start |-> start_time, end |-> start_time + CELL]>>
         \o GridFrom(start_time + CELL)
    ELSE <<>>

\* the busy periods the FreeBusy query returns for the day
busy_periods(cal, date) == {ev \in cal : ev.date = date}

\* the same test with the bounds included: touching periods block the cell
is_busy_Closed(cal, date, cell) ==
    \E ev \in busy_periods(cal, date) : cell.start <= ev.end /\ cell.end >= ev.start

\* any(start_time < busy_end and slot_end > busy_start for ... in busy_periods)
is_busy(cal, date, cell) ==
    \E ev \in busy_periods(cal, date) : cell.start < ev.end /\ cell.end > ev.start

\* get_free_slots(date, calendar_id): the cells that overlap no busy period
get_free_slots(cal, date) ==
    LET IsFree(cell) == ~is_busy(cal, date, cell)
    IN SelectSeq(GridFrom(WORK_START), IsFree)

\* available_slots: the date parameter, then get_free_slots; the view has no
\* try around the gateway call, an exception of the gateway leaves the view.
\* gateway_up: the FreeBusy query answers, or raises
AvailableSlots(p, date_str, gateway_up) ==
    /\ ~InFlight(req[p])
    /\ LET r == [IdleReq EXCEPT !.op = "query"]
       IN req' = [req EXCEPT ![p] =
                    IF date_str = "" THEN Finish(r, {"date_required"})
                    ELSE IF ~DateParses(date_str)
                    THEN Finish(r, {"invalid_date_format"})
                    ELSE IF ~gateway_up THEN Finish(r, {"server_error"})
                    ELSE [Finish(r, {"slots_retrieved"}) EXCEPT
                             !.free = get_free_slots(calendar, date_str)]]
    /\ UNCHANGED <<moves, bookings, slots, calendar>>
    /\ UNCHANGED authVars

----------------------------------------------------------------------------
(* user_bookings, booking_detail, and the maintenance of the slot catalogue *)

\* user_bookings: Booking.objects.filter(user=request.user), serialized
UserBookings(p, caller) ==
    /\ ~InFlight(req[p])
    /\ LET r == [IdleReq EXCEPT !.op = "list"]
       IN req' = [req EXCEPT ![p] =
                    [Finish(r, {"bookings_retrieved"}) EXCEPT
                        !.rows = VisibleTo(bookings, caller)]]
    /\ UNCHANGED <<moves, bookings, slots, calendar>>
    /\ UNCHANGED authVars

\* booking_detail: get_object_or_404(Booking, id=booking_id, user=request.user)
BookingDetail(p, caller, b) ==
    /\ ~InFlight(req[p])
    /\ LET r == [IdleReq EXCEPT !.op = "detail", !.bid = b]
       IN req' = [req EXCEPT ![p] =
                    IF b \notin VisibleTo(bookings, caller)
                    THEN Finish(r, {"not_found"})
                    ELSE Finish(r, {"booking_retrieved"})]
    /\ UNCHANGED <<moves, bookings, slots, calendar>>
    /\ UNCHANGED authVars

\* the catalogue's owner switches the active flag of a slot
SetSlotActive(s, flag) ==
    /\ slots[s] # flag
    /\ slots' = [slots EXCEPT ![s] = flag]
    /\ UNCHANGED <<moves, bookings, calendar, req>>
    /\ UNCHANGED authVars

----------------------------------------------------------------------------
(* update_move, and the workflow that advances a booking *)

\* a move date of a request that is not after today
PastDate == "d0"

\* the move dates of update requests; "none": the request has no move_date
MoveDates == Dates \cup {PastDate}

\* MoveUpdateSerializer.validate_move_date: value <= today is refused
MoveDateErrors(date) ==
    IF date = PastDate THEN {"move_date_not_future"} ELSE {}

\* partial update: the fields of the request replace those of the instance
UpdatedMove(mv, st, date) ==
    [mv EXCEPT !.status = IF st = "none" THEN @ ELSE st,
               !.move_date = IF date = "none" THEN @ ELSE date]

\* get_object_or_404(Move, id=move_id, user=request.user); MoveUpdateSerializer
\* (partial=True) validates the fields of the request and sets them on the
\* instance.  st, date: the status and the move_date of the request, or "none"
UpdateStart(p, caller, m, st, date) ==
    /\ ~InFlight(req[p])
    /\ LET r == [IdleReq EXCEPT !.op = "update", !.caller = caller, !.move_id = m]
       IN req' = [req EXCEPT ![p] =
                    IF moves[m].user # caller
                    THEN Finish(r, {"not_found"})
                    ELSE IF MoveDateErrors(date) # {}
                    THEN Finish(r, MoveDateErrors(date))
                    ELSE [r EXCEPT !.pc = "u_save",
                                   !.mv = UpdatedMove(moves[m], st, date)]]
    /\ UNCHANGED <<moves, bookings, slots, calendar>>
    /\ UNCHANGED authVars

\* serializer.save(): instance.save()
UpdateSave(p) ==
    /\ req[p].pc = "u_save"
    /\ moves' = [moves EXCEPT ![req[p].move_id] = req[p].mv]
    /\ req' = [req EXCEPT ![p] = Finish(req[p], {"updated"})]
    /\ UNCHANGED <<bookings, slots, calendar>>
    /\ UNCHANGED authVars

\* the move-progress workflow: confirmed -> in_progress -> completed
AdvanceBooking(b) ==
    /\ b \in 1..Len(bookings)
    /\ bookings[b].status \in {"confirmed", "in_progress"}
    /\ bookings' = [bookings EXCEPT ![b].status =
                       IF bookings[b].status = "confirmed" THEN "in_progress"
                       ELSE "completed"]
    /\ UNCHANGED <<moves, slots, calendar, req>>
    /\ UNCHANGED authVars

----------------------------------------------------------------------------
(* The reservation engine as a state machine *)

NoUser == [registered |-> FALSE, is_email_verified |-> FALSE, password |-> "none"]
NoToken == [user |-> "none", created_at |-> 0, is_used |-> FALSE]
IdleAuthReq == [op |-> "none", pc |-> "idle", tok |-> 0, pw |-> "none",
                tk |-> NoToken, uid |-> "none", usr |-> NoUser, resp |-> {}]

BookInit ==
    /\ moves = [m \in MoveIds |->
                  [user |-> MoveOwner(m), move_date |-> "d1", status |-> "planning"]]
    /\ bookings = <<>>
    /\ slots = [s \in SlotIds |-> TRUE]
    /\ calendar = {}
    /\ req = [p \in Workers |-> IdleReq]

AuthInit ==
    /\ users = [u \in Users |-> NoUser]
    /\ evTokens = <<>>
    /\ prTokens = <<>>
    /\ evSuccess = <<>>
    /\ prSuccess = <<>>
    /\ now = 0
    /\ areq = [p \in Workers |-> IdleAuthReq]
    /\ sessions = {}

Init == BookInit /\ AuthInit

StartRequest(p) ==
    \/ \E caller \in Users, m \in MoveIds, s \in SlotIds, phone \in Phones :
          BookStart(p, caller, m, s, phone)
    \/ \E caller \in Users, b \in 1..MaxBookings : CancelStart(p, caller, b)

StepRequest(p) ==
    \/ BookCheckSlot(p)
    \/ BookCheckMove(p)
    \/ BookCreate(p)
    \/ BookSaveMove(p)
    \/ \E inserted \in BOOLEAN, mailed \in BOOLEAN : BookMirror(p, inserted, mailed)
    \/ CancelSave(p)
    \/ CancelLoadMove(p)
    \/ CancelCheckOthers(p)
    \/ CancelSaveMove(p)

QueryRequest(p) ==
    \E date_str \in DateStrings, gateway_up \in BOOLEAN :
        AvailableSlots(p, date_str, gateway_up)

UpdateRequest(p) ==
    \/ \E caller \in Users, m \in MoveIds, st \in STATUS_CHOICES :
          UpdateStart(p, caller, m, st, "none")
    \/ UpdateSave(p)

\* update_move requests that carry a move_date
RescheduleRequest(p) ==
    \/ \E caller \in Users, m \in MoveIds, date \in MoveDates :
          UpdateStart(p, caller, m, "none", date)
    \/ UpdateSave(p)

Workflow == \E b \in 1..MaxBookings : AdvanceBooking(b)

\* request workers run concurrently
Next ==
    \/ \E p \in Workers : StartRequest(p)
    \/ \E p \in Workers : StepRequest(p)
    \/ Workflow

Spec == Init /\ [][Next]_vars

\* one request at a time: a single worker serves every request to its end
\* before it takes the next one, and update_move requests are served as well
SeqNext ==
    \/ StartRequest("w1")
    \/ StepRequest("w1")
    \/ UpdateRequest("w1")
    \/ QueryRequest("w1")
    \/ ~InFlight(req["w1"]) /\ Workflow

SeqSpec == Init /\ [][SeqNext]_vars

\* phone numbers at the edges of the pattern: a tab among the digits, a
\* digit that is not 0-9, seven digits, twenty-one digits
TabPhone == <<"1", "2", "3", "4", "\t", "5", "6", "7", "8">>
ArabicPhone == <<"+", "1", "2", "U+0663", "4", "5", "6", "7", "8">>
ShortPhone == <<"1", "2", "3", "4", "5", "6", "7">>
LongPhone == <<"1", "2", "3", "4", "5", "6", "7", "8", "9", "0", "1", "2", "3", "4",
               "5", "6", "7", "8", "9", "0", "1">>
EdgePhones == Phones \cup {TabPhone, ArabicPhone, ShortPhone, LongPhone}

InputRequest(p) ==
    \/ \E caller \in Users, m \in MoveIds, s \in SlotIds, phone \in EdgePhones :
          BookStart(p, caller, m, s, phone)
    \/ \E caller \in Users, b \in 1..MaxBookings : CancelStart(p, caller, b)
    \/ \E caller \in Users : UserBookings(p, caller)
    \/ \E caller \in Users, b \in 1..MaxBookings : BookingDetail(p, caller, b)

\* one request at a time, over every input of create-booking, with the reads
\* of bookings and a slot catalogue whose active flags change
InputNext ==
    \/ InputRequest("w1")
    \/ StepRequest("w1")
    \/ ~InFlight(req["w1"]) /\ \E s \in SlotIds, flag \in BOOLEAN : SetSlotActive(s, flag)

InputSpec == Init /\ [][InputNext]_vars

\* one request at a time, create-booking, cancel-booking and update-move
\* requests that change the move date
MoveNext ==
    \/ StartRequest("w1")
    \/ StepRequest("w1")
    \/ RescheduleRequest("w1")

MoveSpec == Init /\ [][MoveNext]_vars

\* busy periods the remote calendar can hold besides the mirrored bookings:
\* one cell exactly, a period across cell bounds, one that starts before the
\* working day, one that ends after it, one on the other date, a second
\* aligned one and one that covers two cells
RemoteBusyPeriods ==
    {[date |-> "d1", start |-> 600, end |-> 630],
     [date |-> "d1", start |-> 615, end |-> 640],
     [date |-> "d1", start |-> 500, end |-> 545],
     [date |-> "d1", start |-> 1185, end |-> 1300],
     [date |-> "d2", start |-> 900, end |-> 960],
     [date |-> "d1", start |-> 690, end |-> 720],
     [date |-> "d1", start |-> 1080, end |-> 1140]}

\* the availability query over a remote calendar with any of these periods
GridInit ==
    /\ moves = [m \in MoveIds |->
                  [user |-> MoveOwner(m), move_date |-> "d1", status |-> "planning"]]
    /\ bookings = <<>>
    /\ slots = [s \in SlotIds |-> TRUE]
    /\ calendar \in SUBSET RemoteBusyPeriods
    /\ req = [p \in Workers |-> IdleReq]
    /\ AuthInit

GridNext == QueryRequest("w1")

GridSpec == GridInit /\ [][GridNext]_vars

----------------------------------------------------------------------------
(* The token issuer: apps/authentication *)

\* token lifetimes in clock ticks: the verification token outlives the reset token
VERIFICATION_TTL == 2
RESET_TTL == 1

NewPasswords == {"p1", "p2"}

\* EmailVerificationToken.is_expired
VerificationExpired(tk, t) == t >= tk.created_at + VERIFICATION_TTL

\* PasswordResetToken.is_expired
ResetExpired(tk, t) == t >= tk.created_at + RESET_TTL

\* a served request: the locals are gone, the response stays until the worker
\* takes its next request
AuthFinish(r, response) ==
    [IdleAuthReq EXCEPT !.op = r.op, !.pc = "done", !.resp = response]

TokenCount == Len(evTokens) + Len(prTokens)

\* a create that reuses the user's rows: their is_used flags are reset
CreateToken_ResetsUsed(tokens, u, t) ==
    Append([i \in 1..Len(tokens) |->
               IF tokens[i].user = u THEN [tokens[i] EXCEPT !.is_used = FALSE]
               ELSE tokens[i]],
           [user |-> u, created_at |-> t, is_used |-> FALSE])

\* a create that retires the owner's earlier rows: they are marked used
CreateToken_RetiresEarlier(tokens, u, t) ==
    Append([i \in 1..Len(tokens) |->
               IF tokens[i].user = u THEN [tokens[i] EXCEPT !.is_used = TRUE]
               ELSE tokens[i]],
           [user |-> u, created_at |-> t, is_used |-> FALSE])

\* Token.objects.create(user=user, token=token): a new row, the others untouched
CreateToken(tokens, u, t) ==
    Append(tokens, [user |-> u, created_at |-> t, is_used |-> FALSE])

\* register_email: the user row and its first verification token
Register(u) ==
    /\ ~users[u].registered
    /\ TokenCount < MaxTokens
    /\ users' = [users EXCEPT ![u] =
                   [registered |-> TRUE, is_email_verified |-> FALSE,
                    password |-> "p0"]]
    /\ evTokens' = CreateToken(evTokens, u, now)
    /\ evSuccess' = Append(evSuccess, 0)
    /\ UNCHANGED <<prTokens, prSuccess, now, areq>>
    /\ UNCHANGED <<bookVars, sessions>>

\* request emails: the address of each user id, and a string that is no address
Emails == Users \cup {"not-an-email"}

\* serializers.EmailField()
EmailFieldValid(e) == e # "not-an-email"

RESEND_SENT == "If your email is registered, a verification link has been sent."
FORGOT_SENT == "If an account exists with this email, you will receive a password reset link."

\* a resend_email that tells the caller when no user has the email
ResendResponse_RevealsUnknown(usr, sent) ==
    IF ~usr.registered THEN {"No user with this email"} ELSE {RESEND_SENT}

\* the response of resend_email to a valid email: the early return for a
\* verified user, the common return after DoesNotExist, after the send and
\* after a send that raised (the exception is caught and printed)
ResendResponse(usr, sent) ==
    IF usr.registered /\ usr.is_email_verified THEN {RESEND_SENT}
    ELSE IF ~usr.registered THEN {RESEND_SENT}
    ELSE IF ~sent THEN {RESEND_SENT}
    ELSE {RESEND_SENT}

\* the response of forgot_password to a valid email
ForgotResponse(usr, sent) ==
    IF ~usr.registered THEN {FORGOT_SENT}
    ELSE IF ~sent THEN {FORGOT_SENT}
    ELSE {FORGOT_SENT}

\* a resend_email that issues a token to a verified user as well
ResendCreates_IgnoresVerified(usr) == usr.registered

\* resend_email issues a token iff User.objects.get finds the user and the
\* user is not verified yet
ResendCreates(usr) == usr.registered /\ ~usr.is_email_verified

\* forgot_password issues a token iff User.objects.get finds the user
ForgotCreates(usr) == usr.registered

\* resend_email: a further verification token for an unverified user.  The
\* read of the user row and the insert are one step: the insert commutes with
\* every statement of the other requests.  sent: the mail went out, or raised
ResendEmail(p, e, sent) ==
    /\ ~InFlight(areq[p])
    /\ LET r == [IdleAuthReq EXCEPT !.op = "resend"]
           creates == EmailFieldValid(e) /\ ResendCreates(users[e])
       IN /\ creates => TokenCount < MaxTokens
          /\ evTokens' = IF creates THEN CreateToken(evTokens, e, now) ELSE evTokens
          /\ evSuccess' = IF creates THEN Append(evSuccess, 0) ELSE evSuccess
          /\ areq' = [areq EXCEPT ![p] =
                        AuthFinish(r, IF ~EmailFieldValid(e) THEN {"invalid_email"}
                                      ELSE ResendResponse(users[e], sent))]
    /\ UNCHANGED <<users, prTokens, prSuccess, now>>
    /\ UNCHANGED <<bookVars, sessions>>

\* forgot_password: a reset token for a registered user, verified or not
ForgotPassword(p, e, sent) ==
    /\ ~InFlight(areq[p])
    /\ LET r == [IdleAuthReq EXCEPT !.op = "forgot"]
           creates == EmailFieldValid(e) /\ ForgotCreates(users[e])
       IN /\ creates => TokenCount < MaxTokens
          /\ prTokens' = IF creates THEN CreateToken(prTokens, e, now) ELSE prTokens
          /\ prSuccess' = IF creates THEN Append(prSuccess, 0) ELSE prSuccess
          /\ areq' = [areq EXCEPT ![p] =
                        AuthFinish(r, IF ~EmailFieldValid(e) THEN {"invalid_email"}
                                      ELSE ForgotResponse(users[e], sent))]
    /\ UNCHANGED <<users, evTokens, evSuccess, now>>
    /\ UNCHANGED <<bookVars, sessions>>

\* the same checks without the is_used check
RedeemCheck_NoUsedCheck(used, expired) ==
    IF expired THEN {"token_expired"} ELSE {}

\* the same checks without the is_expired check
RedeemCheck_NoExpiryCheck(used, expired) ==
    IF used THEN {"token_already_used"} ELSE {}

\* the same checks in the other order: is_expired first, then is_used
RedeemCheck_ExpiryFirst(used, expired) ==
    IF expired THEN {"token_expired"}
    ELSE IF used THEN {"token_already_used"}
    ELSE {}

\* the outcome of the checks a redemption makes on the row it has read:
\* is_used first, then is_expired
RedeemCheck(used, expired) ==
    IF used THEN {"token_already_used"}
    ELSE IF expired THEN {"token_expired"}
    ELSE {}

\* the row token.save() writes after is_used = True
UsedToken(tk) == [tk EXCEPT !.is_used = TRUE]

\* verify_email: EmailVerificationToken.objects.get(token=token) and the checks
VerifyStart(p, t) ==
    /\ ~InFlight(areq[p])
    /\ LET r == [IdleAuthReq EXCEPT !.op = "verify", !.tok = t]
       IN areq' = [areq EXCEPT ![p] =
            IF t \notin 1..Len(evTokens)
            THEN AuthFinish(r, {"invalid_token"})
            ELSE LET errs == RedeemCheck(evTokens[t].is_used,
                                         VerificationExpired(evTokens[t], now))
                 IN IF errs # {} THEN AuthFinish(r, errs)
                    ELSE [r EXCEPT !.pc = "v_tsave", !.tk = evTokens[t]]]
    /\ UNCHANGED <<users, evTokens, prTokens, evSuccess, prSuccess, now>>
    /\ UNCHANGED <<bookVars, sessions>>

\* verification_token.is_used = True; verification_token.save()
VerifySaveToken(p) ==
    /\ areq[p].pc = "v_tsave"
    /\ evTokens' = [evTokens EXCEPT ![areq[p].tok] = UsedToken(areq[p].tk)]
    /\ areq' = [areq EXCEPT ![p] = [areq[p] EXCEPT !.pc = "v_uload"]]
    /\ UNCHANGED <<users, prTokens, evSuccess, prSuccess, now>>
    /\ UNCHANGED <<bookVars, sessions>>

\* user = verification_token.user; user.is_email_verified = True
VerifyLoadUser(p) ==
    /\ areq[p].pc = "v_uload"
    /\ areq' = [areq EXCEPT ![p] =
                  [areq[p] EXCEPT !.pc = "v_usave",
                                  !.usr = [users[areq[p].tk.user]
                                             EXCEPT !.is_email_verified = TRUE]]]
    /\ UNCHANGED <<users, evTokens, prTokens, evSuccess, prSuccess, now>>
    /\ UNCHANGED <<bookVars, sessions>>

\* user.save(); then the success response
VerifySaveUser(p) ==
    /\ areq[p].pc = "v_usave"
    /\ users' = [users EXCEPT ![areq[p].tk.user] = areq[p].usr]
    /\ evSuccess' = [evSuccess EXCEPT ![areq[p].tok] = @ + 1]
    /\ areq' = [areq EXCEPT ![p] = AuthFinish(areq[p], {"email_verified"})]
    /\ UNCHANGED <<evTokens, prTokens, prSuccess, now>>
    /\ UNCHANGED <<bookVars, sessions>>

\* reset_password: PasswordResetToken.objects.get(token=token) and the checks
ResetStart(p, t, pw) ==
    /\ ~InFlight(areq[p])
    /\ LET r == [IdleAuthReq EXCEPT !.op = "reset", !.tok = t]
       IN areq' = [areq EXCEPT ![p] =
            IF t \notin 1..Len(prTokens)
            THEN AuthFinish(r, {"invalid_token"})
            ELSE LET errs == RedeemCheck(prTokens[t].is_used,
                                         ResetExpired(prTokens[t], now))
                 IN IF errs # {} THEN AuthFinish(r, errs)
                    ELSE [r EXCEPT !.pc = "r_uload", !.pw = pw,
                                   !.tk = prTokens[t]]]
    /\ UNCHANGED <<users, evTokens, prTokens, evSuccess, prSuccess, now>>
    /\ UNCHANGED <<bookVars, sessions>>

\* user = reset_token.user; user.set_password(new_password)
ResetLoadUser(p) ==
    /\ areq[p].pc = "r_uload"
    /\ areq' = [areq EXCEPT ![p] =
                  [areq[p] EXCEPT !.pc = "r_usave",
                                  !.usr = [users[areq[p].tk.user]
                                             EXCEPT !.password = areq[p].pw]]]
    /\ UNCHANGED <<users, evTokens, prTokens, evSuccess, prSuccess, now>>
    /\ UNCHANGED <<bookVars, sessions>>

\* user.save()
ResetSaveUser(p) ==
    /\ areq[p].pc = "r_usave"
    /\ users' = [users EXCEPT ![areq[p].tk.user] = areq[p].usr]
    /\ areq' = [areq EXCEPT ![p] = [areq[p] EXCEPT !.pc = "r_tsave"]]
    /\ UNCHANGED <<evTokens, prTokens, evSuccess, prSuccess, now>>
    /\ UNCHANGED <<bookVars, sessions>>

\* reset_token.is_used = True; reset_token.save(); then the success response
ResetSaveToken(p) ==
    /\ areq[p].pc = "r_tsave"
    /\ prTokens' = [prTokens EXCEPT ![areq[p].tok] = UsedToken(areq[p].tk)]
    /\ prSuccess' = [prSuccess EXCEPT ![areq[p].tok] = @ + 1]
    /\ areq' = [areq EXCEPT ![p] = AuthFinish(areq[p], {"password_reset"})]
    /\ UNCHANGED <<users, evTokens, evSuccess, now>>
    /\ UNCHANGED <<bookVars, sessions>>

\* time passes
Tick ==
    /\ now < MaxTime
    /\ now' = now + 1
    /\ UNCHANGED <<users, evTokens, prTokens, evSuccess, prSuccess, areq>>
    /\ UNCHANGED <<bookVars, sessions>>

TokenNext ==
    \/ \E u \in Users : Register(u)
    \/ \E p \in Workers, e \in Emails, sent \in BOOLEAN : ResendEmail(p, e, sent)
    \/ \E p \in Workers, e \in Emails, sent \in BOOLEAN : ForgotPassword(p, e, sent)
    \/ \E p \in Workers, t \in 0..MaxTokens : VerifyStart(p, t)
    \/ \E p \in Workers : VerifySaveToken(p)
    \/ \E p \in Workers : VerifyLoadUser(p)
    \/ \E p \in Workers : VerifySaveUser(p)
    \/ \E p \in Workers, t \in 0..MaxTokens, pw \in NewPasswords : ResetStart(p, t, pw)
    \/ \E p \in Workers : ResetLoadUser(p)
    \/ \E p \in Workers : ResetSaveUser(p)
    \/ \E p \in Workers : ResetSaveToken(p)
    \/ Tick

TokenSpec == Init /\ [][TokenNext]_vars

----------------------------------------------------------------------------
(* Accounts: login and the profile, next to the token issuer *)

LoginPasswords == {"p0"} \cup NewPasswords

\* login: UserLoginSerializer.validate (authenticate by email and password),
\* then the is_email_verified gate of the view, on the one row authenticate read
LoginResponse(usr, pw) ==
    IF ~usr.registered \/ usr.password # pw THEN {"invalid_credentials"}
    ELSE IF ~usr.is_email_verified THEN {"verification_required"}
    ELSE {"login_ok"}

\* login: the JWT pair is issued with the success response
Login(p, e, pw) ==
    /\ ~InFlight(areq[p])
    /\ LET r == [IdleAuthReq EXCEPT !.op = "login"]
           response == IF ~EmailFieldValid(e) THEN {"invalid_credentials"}
                       ELSE LoginResponse(users[e], pw)
       IN /\ areq' = [areq EXCEPT ![p] = AuthFinish(r, response)]
          /\ sessions' = IF response = {"login_ok"} THEN sessions \cup {e}
                         ELSE sessions
    /\ UNCHANGED <<users, evTokens, prTokens, evSuccess, prSuccess, now>>
    /\ UNCHANGED bookVars

\* update_profile: request.user is the row the JWT authentication read; valid:
\* the names and the phone number of the request pass the field validators
ProfileStart(p, u, valid) ==
    /\ ~InFlight(areq[p])
    /\ u \in sessions
    /\ LET r == [IdleAuthReq EXCEPT !.op = "profile"]
       IN areq' = [areq EXCEPT ![p] =
            IF ~valid THEN AuthFinish(r, {"profile_update_failed"})
            ELSE [r EXCEPT !.pc = "p_save", !.uid = u, !.usr = users[u]]]
    /\ UNCHANGED <<users, evTokens, prTokens, evSuccess, prSuccess, now, sessions>>
    /\ UNCHANGED bookVars

\* serializer.save(): is_email_verified is read-only, the request cannot set
\* it; instance.save() writes every column of the row read at the start
ProfileSave(p) ==
    /\ areq[p].pc = "p_save"
    /\ users' = [users EXCEPT ![areq[p].uid] = areq[p].usr]
    /\ areq' = [areq EXCEPT ![p] = AuthFinish(areq[p], {"profile_updated"})]
    /\ UNCHANGED <<evTokens, prTokens, evSuccess, prSuccess, now, sessions>>
    /\ UNCHANGED bookVars

AccountNext ==
    \/ \E u \in Users : Register(u)
    \/ \E p \in Workers, e \in Emails, sent \in BOOLEAN : ResendEmail(p, e, sent)
    \/ \E p \in Workers, e \in Emails, sent \in BOOLEAN : ForgotPassword(p, e, sent)
    \/ \E p \in Workers, t \in 0..MaxTokens : VerifyStart(p, t)
    \/ \E p \in Workers : VerifySaveToken(p)
    \/ \E p \in Workers : VerifyLoadUser(p)
    \/ \E p \in Workers : VerifySaveUser(p)
    \/ \E p \in Workers, t \in 0..MaxTokens, pw \in NewPasswords : ResetStart(p, t, pw)
    \/ \E p \in Workers : ResetLoadUser(p)
    \/ \E p \in Workers : ResetSaveUser(p)
    \/ \E p \in Workers : ResetSaveToken(p)
    \/ \E p \in Workers, e \in Emails, pw \in LoginPasswords : Login(p, e, pw)
    \/ \E p \in Workers, u \in Users, valid \in BOOLEAN : ProfileStart(p, u, valid)
    \/ \E p \in Workers : ProfileSave(p)

AccountSpec == Init /\ [][AccountNext]_vars

----------------------------------------------------------------------------
(* Properties of the reservation engine *)

\* worker p ends the request it is serving in this step
Ends(p) == InFlight(req[p]) /\ req'[p].pc = "done"

ActiveBookingIds == {i \in 1..Len(bookings) : bookings[i].status \in ActiveStatuses}

\* C1: no two bookings with status confirmed or in_progress share a time slot
\* and a date, so of two create-booking requests racing on one slot and date
\* at most one succeeds
C1_NoDoubleBooking ==
    \A i \in ActiveBookingIds, j \in ActiveBookingIds :
        (bookings[i].time_slot = bookings[j].time_slot
            /\ bookings[i].date = bookings[j].date) => i = j

\* C2: a move has at most one booking with status confirmed or in_progress
C2_OneActiveBookingPerMove ==
    \A i \in ActiveBookingIds, j \in ActiveBookingIds :
        bookings[i].move = bookings[j].move => i = j

\* the move of request r has an active booking on another slot than r asks for
ActiveOnOtherSlot(r) ==
    \E i \in ActiveBookingIds :
        bookings[i].move = r.move_id /\ bookings[i].time_slot # r.slot

C5_CancelTerminalFails ==
    [][\A p \in Workers, caller \in Users, b \in 1..Len(bookings) :
          (/\ CancelStart(p, caller, b)
           /\ bookings[b].user = caller
           /\ bookings[b].status \in TerminalStatuses)
          => /\ req'[p].pc = "done"
             /\ req'[p].resp = {"cannot_cancel"}
             /\ bookings' = bookings
             /\ moves' = moves]_vars

\* C5 witness: a cancel of a completed booking was refused
C5_Witness ==
    \E p \in Workers :
        /\ req[p].op = "cancel"
        /\ req[p].pc = "done"
        /\ req[p].resp = {"cannot_cancel"}
        /\ bookings[req[p].bid].status = "completed"

\* the owner's cancel of a confirmed booking is accepted and ends with the
\* booking cancelled and the success response
CancelConfirmedSucceeds(p) ==
    /\ \A caller \in Users, b \in 1..Len(bookings) :
          (/\ CancelStart(p, caller, b)
           /\ bookings[b].user = caller
           /\ bookings[b].status = "confirmed")
          => req'[p].pc = "c_save"
    /\ (req[p].op = "cancel" /\ Ends(p) /\ req[p].bk.status = "confirmed")
       => /\ req'[p].resp = {"cancelled"}
          /\ bookings'[req[p].bid].status = "cancelled"

\* p ends a cancel of a confirmed booking that was its move's only active one
EndsCancelOfOnlyActive(p) ==
    /\ req[p].op = "cancel"
    /\ Ends(p)
    /\ req[p].bk.status = "confirmed"
    /\ ~OtherActiveBooking(bookings', req[p].move_id, req[p].bid)

BookingTransitions ==
    {<<"confirmed", "in_progress">>, <<"in_progress", "completed">>,
     <<"confirmed", "cancelled">>, <<"in_progress", "cancelled">>}

\* C7: a booking's status changes only along confirmed -> in_progress ->
\* completed or confirmed|in_progress -> cancelled; completed and cancelled
\* are never left
C7_BookingStateMachine ==
    [][\A b \in 1..Len(bookings) :
          \/ bookings'[b].status = bookings[b].status
          \/ <<bookings[b].status, bookings'[b].status>> \in BookingTransitions]_vars

----------------------------------------------------------------------------
(* Properties of the token issuer *)

\* C3: of the redemptions of one token value at most one reports success
C3_SingleRedemption ==
    /\ \A t \in 1..Len(evTokens) : evSuccess[t] <= 1
    /\ \A t \in 1..Len(prTokens) : prSuccess[t] <= 1

\* C8: once a redemption of a token has reported success, a redemption of the
\* same token that starts later fails with the already-used error and changes
\* no user and no token
C8_ReplayRejected ==
    [][\A p \in Workers :
          /\ \A t \in 1..Len(evTokens) :
                (VerifyStart(p, t) /\ evSuccess[t] >= 1)
                => /\ areq'[p].pc = "done"
                   /\ areq'[p].resp = {"token_already_used"}
                   /\ UNCHANGED <<users, evTokens, prTokens>>
          /\ \A t \in 1..Len(prTokens), pw \in NewPasswords :
                (ResetStart(p, t, pw) /\ prSuccess[t] >= 1)
                => /\ areq'[p].pc = "done"
                   /\ areq'[p].resp = {"token_already_used"}
                   /\ UNCHANGED <<users, evTokens, prTokens>>]_vars

\* C8 witness: a second verify-email and a second reset-password of tokens
\* redeemed before were both refused as already used
C8_Witness ==
    \E p \in Workers, q \in Workers :
        /\ areq[p].op = "verify" /\ areq[p].pc = "done"
        /\ areq[p].resp = {"token_already_used"}
        /\ Len(evTokens) = 1 /\ evSuccess[1] = 1
        /\ areq[q].op = "reset" /\ areq[q].pc = "done"
        /\ areq[q].resp = {"token_already_used"}
        /\ Len(prTokens) = 1 /\ prSuccess[1] = 1

\* C9: redeeming an unused token at or after created_at + TTL fails with the
\* expired error; the token stays unused and no user row changes
C9_ExpiredRejected ==
    [][\A p \in Workers :
          /\ \A t \in 1..Len(evTokens) :
                (/\ VerifyStart(p, t)
                 /\ ~evTokens[t].is_used
                 /\ now >= evTokens[t].created_at + VERIFICATION_TTL)
                => /\ areq'[p].pc = "done"
                   /\ areq'[p].resp = {"token_expired"}
                   /\ UNCHANGED <<users, evTokens, prTokens>>
          /\ \A t \in 1..Len(prTokens), pw \in NewPasswords :
                (/\ ResetStart(p, t, pw)
                 /\ ~prTokens[t].is_used
                 /\ now >= prTokens[t].created_at + RESET_TTL)
                => /\ areq'[p].pc = "done"
                   /\ areq'[p].resp = {"token_expired"}
                   /\ UNCHANGED <<users, evTokens, prTokens>>]_vars

\* C9 witness: a verify-email and a reset-password of expired, never used
\* tokens were both refused as expired
C9_Witness ==
    \E p \in Workers, q \in Workers :
        /\ areq[p].op = "verify" /\ areq[p].pc = "done"
        /\ areq[p].resp = {"token_expired"}
        /\ Len(evTokens) = 1 /\ ~evTokens[1].is_used
        /\ ~users[evTokens[1].user].is_email_verified
        /\ areq[q].op = "reset" /\ areq[q].pc = "done"
        /\ areq[q].resp = {"token_expired"}
        /\ Len(prTokens) = 1 /\ ~prTokens[1].is_used
        /\ users[prTokens[1].user].password = "p0"

\* C10: a token whose is_used flag is true keeps it true in every step
C10_UsedIsMonotonic ==
    [][/\ \A t \in 1..Len(evTokens) :
             evTokens[t].is_used => evTokens'[t].is_used
       /\ \A t \in 1..Len(prTokens) :
             prTokens[t].is_used => prTokens'[t].is_used]_vars

\* C10 witness: a used verification token and a used reset token, the reset
\* token issued after the verification token was redeemed
C10_Witness ==
    /\ Len(evTokens) = 1 /\ evTokens[1].is_used
    /\ Len(prTokens) = 1 /\ prTokens[1].is_used
    /\ prTokens[1].created_at > evTokens[1].created_at

\* C11: issuing a token leaves every earlier token row as it was, and a
\* verify-email of an unused, unexpired token is accepted and ends with the
\* success response whatever the state of the owner's other tokens and of the
\* owner's verified flag; so of two verification tokens of one user the first
\* redeems and the second still redeems afterwards
C11_EarlierTokensStayValid ==
    [][/\ \A t \in 1..Len(evTokens) : Len(evTokens') > Len(evTokens)
                                          => evTokens'[t] = evTokens[t]
       /\ \A t \in 1..Len(prTokens) : Len(prTokens') > Len(prTokens)
                                          => prTokens'[t] = prTokens[t]
       /\ \A p \in Workers :
             /\ \A t \in 1..Len(evTokens) :
                   (/\ VerifyStart(p, t)
                    /\ ~evTokens[t].is_used
                    /\ ~VerificationExpired(evTokens[t], now))
                   => areq'[p].pc = "v_tsave"
             /\ (areq[p].pc = "v_usave" /\ areq'[p] # areq[p])
                => /\ areq'[p].resp = {"email_verified"}
                   /\ users'[areq[p].tk.user].is_email_verified]_vars

\* C11 witness: two verification tokens of one user, registration then resend,
\* both redeemed with the success response
C11_Witness ==
    /\ Len(evTokens) = 2
    /\ evTokens[1].user = evTokens[2].user
    /\ evTokens[1].is_used /\ evTokens[2].is_used
    /\ evSuccess = <<1, 1>>
    /\ users[evTokens[1].user].is_email_verified
    /\ \E p \in Workers : areq[p].op = "verify" /\ areq[p].resp = {"email_verified"}

\* C12: to a syntactically valid email resend-verification answers with one
\* and the same success response, and so does forgot-password, whether no user
\* has the email, the user is unverified or verified, and whether the mail
\* went out or raised: the responses to two emails that differ in being
\* registered are identical
C12_GenericResponse ==
    [][/\ \A p \in Workers, e \in Users, sent \in BOOLEAN :
             /\ ResendEmail(p, e, sent) => areq'[p].resp = {RESEND_SENT}
             /\ ForgotPassword(p, e, sent) => areq'[p].resp = {FORGOT_SENT}
       /\ \A e1 \in Users, e2 \in Users, s1 \in BOOLEAN, s2 \in BOOLEAN :
             /\ ResendResponse(users[e1], s1) = ResendResponse(users[e2], s2)
             /\ ForgotResponse(users[e1], s1) = ForgotResponse(users[e2], s2)]_vars

\* C12 witness: nobody is registered, and a resend-verification and a
\* forgot-password were both answered with the generic success response
C12_Witness ==
    /\ \A u \in Users : ~users[u].registered
    /\ \E p \in Workers, q \in Workers :
          /\ areq[p].op = "resend" /\ areq[p].resp = {RESEND_SENT}
          /\ areq[q].op = "forgot" /\ areq[q].resp = {FORGOT_SENT}

----------------------------------------------------------------------------
(* Properties of the availability query and of the effects of create-booking *)

Range(seq) == {seq[i] : i \in 1..Len(seq)}

\* the answer of a query reports the catalogue slot s as available: every
\* cell of the working day that overlaps the slot is in the list of free cells
SlotReportedFree(free, s) ==
    \A cell \in Range(GridFrom(WORK_START)) :
        Overlaps(cell.start, cell.end, SlotStart(s), SlotEnd(s))
        => cell \in Range(free)

\* the local busy set: the slot intervals of the bookings on the date with
\* status confirmed or in_progress
LocalBusy(bks, date) ==
    {[start |-> SlotStart(bks[i].time_slot), end |-> SlotEnd(bks[i].time_slot)] :
        i \in {j \in 1..Len(bks) : bks[j].date = date
                                   /\ bks[j].status \in ActiveStatuses}}

\* the remote busy set: the intervals of the calendar's events on the date
RemoteBusy(cal, date) ==
    {[start |-> ev.start, end |-> ev.end] : ev \in busy_periods(cal, date)}

OverlapsAny(busy, s) ==
    \E iv \in busy : Overlaps(SlotStart(s), SlotEnd(s), iv.start, iv.end)

\* C13: the availability query that follows a successful create-booking
\* reports the booked slot as unavailable on the booking's date, and the
\* query that follows the cancel of a booking reports its slot as available
\* again when no active booking is left on that slot and date
C13_QueryFollowsBookings ==
    [][\A p \in Workers, d \in Dates, s \in SlotIds :
          (/\ AvailableSlots(p, d, TRUE)
           /\ req[p].bid \in 1..Len(bookings)
           /\ bookings[req[p].bid].time_slot = s
           /\ bookings[req[p].bid].date = d)
          => /\ (/\ req[p].op = "book"
                 /\ req[p].resp = {"created"}
                 /\ bookings[req[p].bid].status \in ActiveStatuses)
                => ~SlotReportedFree(req'[p].free, s)
             /\ (/\ req[p].op = "cancel"
                 /\ req[p].resp = {"cancelled"}
                 /\ is_available_on_date(bookings, s, d))
                => SlotReportedFree(req'[p].free, s)]_vars

\* C14: an availability query reports a slot as available iff the slot
\* overlaps no interval of the union of the local and the remote busy set,
\* and iff the availability check of create-booking finds the slot available
C14_QueryAgreesWithCreate ==
    [][\A p \in Workers, d \in Dates, s \in SlotIds :
          AvailableSlots(p, d, TRUE)
          => /\ SlotReportedFree(req'[p].free, s)
                <=> ~OverlapsAny(LocalBusy(bookings, d)
                                   \cup RemoteBusy(calendar, d), s)
             /\ SlotReportedFree(req'[p].free, s)
                <=> is_available_on_date(bookings, s, d)]_vars

\* C15: an availability query whose gateway call fails is answered with the
\* result computed from the local bookings alone
C15_QueryDegradesToLocal ==
    [][\A p \in Workers, d \in Dates :
          AvailableSlots(p, d, FALSE)
          => /\ req'[p].resp = {"slots_retrieved"}
             /\ \A s \in SlotIds :
                   SlotReportedFree(req'[p].free, s)
                   <=> ~OverlapsAny(LocalBusy(bookings, d), s)]_vars

\* C16: a create-booking that passed validation keeps its booking persisted
\* and reports success, whether the calendar insert went through or raised
C16_MirrorNeverFailsRequest ==
    [][\A p \in Workers, inserted \in BOOLEAN, mailed \in BOOLEAN :
          BookMirror(p, inserted, mailed)
          => /\ req[p].bid \in 1..Len(bookings)
             /\ bookings' = bookings
             /\ moves' = moves
             /\ req'[p].resp = {"created"}]_vars

\* C17: a create-booking that has persisted its booking reports success even
\* when sending the confirmation mail raises
C17_MailFailureIsNotFatal ==
    [][\A p \in Workers, inserted \in BOOLEAN :
          BookMirror(p, inserted, FALSE) => req'[p].resp = {"created"}]_vars

\* C18: with requests served one at a time, a create-booking inserts exactly
\* one row, in its create step: a confirmed booking of the requested move and
\* slot dated with the move's date; when it reports success that row is the
\* newest one and the move is scheduled
C18_CreatePersistsOneBooking ==
    [][\A p \in Workers :
          (req[p].op = "book" /\ req'[p] # req[p])
          => /\ req[p].pc = "b_create"
                => /\ Len(bookings') = Len(bookings) + 1
                   /\ SubSeq(bookings', 1, Len(bookings)) = bookings
                   /\ bookings'[Len(bookings')].status = "confirmed"
                   /\ bookings'[Len(bookings')].move = req[p].move_id
                   /\ bookings'[Len(bookings')].time_slot = req[p].slot
                   /\ bookings'[Len(bookings')].date
                         = moves[req[p].move_id].move_date
             /\ req[p].pc # "b_create" => bookings' = bookings
             /\ req'[p].resp = {"created"}
                => /\ req[p].bid = Len(bookings)
                   /\ bookings[req[p].bid].status = "confirmed"
                   /\ bookings[req[p].bid].move = req[p].move_id
                   /\ bookings[req[p].bid].time_slot = req[p].slot
                   /\ moves'[req[p].move_id].status = "scheduled"
                   /\ bookings[req[p].bid].date
                         = moves'[req[p].move_id].move_date]_vars

\* C18 witness: a create-booking reported success; its booking is the only
\* one, confirmed, on the requested slot, and the move is scheduled
C18_Witness ==
    /\ req["w1"].op = "book" /\ req["w1"].pc = "done"
    /\ req["w1"].resp = {"created"}
    /\ Len(bookings) = 1 /\ req["w1"].bid = 1
    /\ bookings[1].status = "confirmed"
    /\ bookings[1].time_slot = req["w1"].slot
    /\ bookings[1].date = moves[bookings[1].move].move_date
    /\ moves[bookings[1].move].status = "scheduled"

\* C19: in no state does a confirmed booking inserted by a create-booking
\* request exist while its move is not scheduled
C19_NoPartialBooking ==
    \A p \in Workers :
        (/\ req[p].op = "book"
         /\ req[p].bid \in 1..Len(bookings)
         /\ bookings[req[p].bid].status = "confirmed")
        => moves[bookings[req[p].bid].move].status = "scheduled"

\* C20: no step changes the confirmation number, the slot, the date or the
\* phone number of a booking, and no two bookings share a confirmation number
C20_ConfirmationNumberFixed ==
    [][/\ \A b \in 1..Len(bookings) :
             /\ bookings'[b].confirmation_number = bookings[b].confirmation_number
             /\ bookings'[b].time_slot = bookings[b].time_slot
             /\ bookings'[b].date = bookings[b].date
             /\ bookings'[b].phone_number = bookings[b].phone_number
       /\ \A i \in 1..Len(bookings'), j \in 1..Len(bookings') :
             bookings'[i].confirmation_number = bookings'[j].confirmation_number
             => i = j]_vars

\* C20 witness: two bookings, one of them cancelled by a cancel-booking and
\* one advanced by the workflow, with their two confirmation numbers
C20_Witness ==
    /\ Len(bookings) = 2
    /\ bookings[1].status = "cancelled"
    /\ bookings[2].status = "in_progress"
    /\ bookings[1].confirmation_number \in Codes
    /\ bookings[2].confirmation_number \in Codes
    /\ bookings[1].confirmation_number # bookings[2].confirmation_number
    /\ \E p \in Workers : req[p].op = "cancel" /\ req[p].resp = {"cancelled"}

----------------------------------------------------------------------------
(* Properties of the order of checks and of the scope of requests *)

\* C22: a redemption checks not-found, then already-used, then expired: a
\* token value that matches no row is answered as invalid, and a verify-email
\* or reset-password of a token that is both used and past its expiry is
\* answered with the already-used error, not the expired one
C22_UsedBeforeExpired ==
    [][\A p \in Workers :
          /\ \A t \in 0..MaxTokens :
                /\ (VerifyStart(p, t) /\ t \notin 1..Len(evTokens))
                   => areq'[p].resp = {"invalid_token"}
                /\ (/\ VerifyStart(p, t)
                    /\ t \in 1..Len(evTokens)
                    /\ evTokens[t].is_used
                    /\ now >= evTokens[t].created_at + VERIFICATION_TTL)
                   => /\ areq'[p].pc = "done"
                      /\ areq'[p].resp = {"token_already_used"}
          /\ \A t \in 0..MaxTokens, pw \in NewPasswords :
                /\ (ResetStart(p, t, pw) /\ t \notin 1..Len(prTokens))
                   => areq'[p].resp = {"invalid_token"}
                /\ (/\ ResetStart(p, t, pw)
                    /\ t \in 1..Len(prTokens)
                    /\ prTokens[t].is_used
                    /\ now >= prTokens[t].created_at + RESET_TTL)
                   => /\ areq'[p].pc = "done"
                      /\ areq'[p].resp = {"token_already_used"}]_vars

\* C22 witness: the only verification token and the only reset token are both
\* used and past their expiry, and a verify-email and a reset-password were
\* both answered with the already-used error
C22_Witness ==
    \E p \in Workers, q \in Workers :
        /\ Len(evTokens) = 1 /\ evTokens[1].is_used
        /\ VerificationExpired(evTokens[1], now)
        /\ Len(prTokens) = 1 /\ prTokens[1].is_used
        /\ ResetExpired(prTokens[1], now)
        /\ areq[p].op = "verify" /\ areq[p].resp = {"token_already_used"}
        /\ areq[q].op = "reset" /\ areq[q].resp = {"token_already_used"}

\* C30: a reset-password that fails on an unknown, an already used or an
\* expired token changes no user row (so no password) and no token row; a
\* resend-verification for an email no user has, or whose user is verified,
\* and a forgot-password for an email no user has, create no token
C30_FailuresWriteNothing ==
    [][\A p \in Workers :
          /\ \A t \in 0..MaxTokens, pw \in NewPasswords :
                (/\ ResetStart(p, t, pw)
                 /\ \/ t \notin 1..Len(prTokens)
                    \/ prTokens[t].is_used
                    \/ now >= prTokens[t].created_at + RESET_TTL)
                => /\ areq'[p].pc = "done"
                   /\ areq'[p].resp \in {{"invalid_token"}, {"token_already_used"},
                                         {"token_expired"}}
                   /\ UNCHANGED <<users, evTokens, prTokens>>
          /\ \A e \in Users, sent \in BOOLEAN :
                /\ (/\ ResendEmail(p, e, sent)
                    /\ ~users[e].registered \/ users[e].is_email_verified)
                   => UNCHANGED <<users, evTokens, prTokens>>
                /\ (ForgotPassword(p, e, sent) /\ ~users[e].registered)
                   => UNCHANGED <<users, evTokens, prTokens>>]_vars

\* C30 witness: every registered user is verified, a resend-verification was
\* answered and the only verification token is still the one of the
\* registration; a reset-password of an unknown token was refused and the
\* password is the one of the registration
C30_Witness ==
    \E p \in Workers, q \in Workers, u \in Users :
        /\ users[u].registered /\ users[u].is_email_verified
        /\ \A v \in Users \ {u} : ~users[v].registered
        /\ Len(evTokens) = 1 /\ Len(prTokens) = 0
        /\ areq[p].op = "resend" /\ areq[p].resp = {RESEND_SENT}
        /\ areq[q].op = "reset" /\ areq[q].resp = {"invalid_token"}
        /\ users[u].password = "p0"

\* user u has redeemed a verification token of their own with success
HasRedeemedOwnToken(u) ==
    \E t \in 1..Len(evTokens) : evTokens[t].user = u /\ evSuccess[t] >= 1

\* C29: a login of a user succeeds only if a verification token owned by that
\* user was redeemed with success earlier; the email-verified flag is false
\* after the registration, and it turns from false to true only in the
\* user.save() of a successful verify-email of a token of that user, never in
\* a step of resend, forgot-password, reset-password or profile update
C29_VerifiedOnlyByVerifyEmail ==
    [][/\ \A p \in Workers, e \in Users, pw \in LoginPasswords :
             (Login(p, e, pw) /\ areq'[p].resp = {"login_ok"})
             => HasRedeemedOwnToken(e)
       /\ \A u \in Users : Register(u) => ~users'[u].is_email_verified
       /\ \A u \in Users :
             (~users[u].is_email_verified /\ users'[u].is_email_verified)
             => \E p \in Workers : /\ areq[p].op = "verify"
                                   /\ areq[p].pc = "v_usave"
                                   /\ areq[p].tk.user = u
                                   /\ areq'[p].resp = {"email_verified"}]_vars

\* C27: whenever no create-booking and no cancel-booking request is in flight,
\* a move that has a booking with status confirmed or in_progress is in status
\* scheduled; a cancel-booking interleaved with a create-booking for the same
\* move does not leave the move in planning with the new booking confirmed
C27_ActiveBookingMeansScheduled ==
    (\A p \in Workers : ~InFlight(req[p]))
    => \A i \in ActiveBookingIds : moves[bookings[i].move].status = "scheduled"

\* the starts of the windows 09:00, 09:30, ..., 19:30, minutes after midnight
GridStarts == {m \in 540..1170 : (m - 540) % 30 = 0}

\* C24: for a date the query answers with exactly the half-open 30-minute
\* windows of the grid 09:00, 09:30, ..., 19:30 that overlap no busy period of
\* that date, in ascending order of their starts, where [s, e) and [bs, be)
\* overlap iff s < be and bs < e; a busy period that ends at a window's start
\* or starts at its end does not block the window
C24_FreeSlotsExact ==
    [][\A p \in Workers, date \in Dates :
          AvailableSlots(p, date, TRUE)
          => LET free == req'[p].free
                 busy == {ev \in calendar : ev.date = date}
             IN /\ \A i \in 1..Len(free) :
                      /\ free[i].start \in GridStarts
                      /\ free[i].end = free[i].start + 30
                /\ \A i \in 1..Len(free), j \in 1..Len(free) :
                      i < j => free[i].start < free[j].start
                /\ \A m \in GridStarts :
                      (\E i \in 1..Len(free) : free[i].start = m)
                      <=> ~\E ev \in busy : m < ev.end /\ ev.start < m + 30
                /\ \A m \in GridStarts, ev \in busy :
                      (ev.end = m \/ ev.start = m + 30)
                      => \/ \E i \in 1..Len(free) : free[i].start = m
                         \/ \E o \in busy : m < o.end /\ o.start < m + 30]_vars

\* C24 witness: the calendar holds the busy period 10:00-10:30 of d1 and none
\* that overlaps its neighbours; the answer has the windows 09:30-10:00 and
\* 10:30-11:00, which touch the period, and not the window 10:00-10:30
C24_Witness ==
    /\ [date |-> "d1", start |-> 600, end |-> 630] \in calendar
    /\ [date |-> "d1", start |-> 615, end |-> 640] \notin calendar
    /\ req["w1"].op = "query"
    /\ req["w1"].resp = {"slots_retrieved"}
    /\ [start |-> 570, end |-> 600] \in Range(req["w1"].free)
    /\ [start |-> 630, end |-> 660] \in Range(req["w1"].free)
    /\ [start |-> 600, end |-> 630] \notin Range(req["w1"].free)

\* C28: after any sequence of create-booking and update-move requests, every
\* booking with status confirmed or in_progress has the date that is the
\* current move date of its move
C28_BookingDateIsMoveDate ==
    ~InFlight(req["w1"])
    => \A i \in ActiveBookingIds :
          bookings[i].date = moves[bookings[i].move].move_date

----------------------------------------------------------------------------
(* Properties of the validation of create-booking and of the reads *)

\* the field checks a create-booking request violates
ViolatedFieldChecks(caller, m, s, phone) ==
    {e \in {"move_not_found", "time_slot_inactive", "phone_invalid"} :
        \/ e = "move_not_found" /\ moves[m].user # caller
        \/ e = "time_slot_inactive" /\ ~slots[s]
        \/ e = "phone_invalid" /\ ~PhoneMatches(phone)}

\* the first violated field check in the order slot, phone, move
FirstViolatedFieldCheck(caller, m, s, phone) ==
    IF ~slots[s] THEN {"time_slot_inactive"}
    ELSE IF ~PhoneMatches(phone) THEN {"phone_invalid"}
    ELSE IF moves[m].user # caller THEN {"move_not_found"}
    ELSE {}

\* a create-booking request leaves validate() at the availability check, or
\* else at the active-booking check, with that check's error alone and with
\* the bookings and the moves as they were
ObjectChecksInOrder(p) ==
    /\ (/\ req[p].pc = "b_avail" /\ req'[p] # req[p]
        /\ ~is_available_on_date(bookings, req[p].slot, req[p].mv.move_date))
       => /\ req'[p].pc = "done"
          /\ req'[p].resp = {"time_slot_unavailable"}
          /\ bookings' = bookings /\ moves' = moves
    /\ (/\ req[p].pc = "b_active" /\ req'[p] # req[p]
        /\ HasActiveBooking(bookings, req[p].move_id))
       => /\ req'[p].pc = "done"
          /\ req'[p].resp = {"move_has_active_booking"}
          /\ bookings' = bookings /\ moves' = moves

C25_InactiveSlotRejected ==
    [][/\ \A p \in Workers, caller \in Users, m \in MoveIds, s \in SlotIds,
             phone \in EdgePhones :
             (BookStart(p, caller, m, s, phone) /\ ~slots[s])
             => /\ req'[p].pc = "done"
                /\ "time_slot_inactive" \in req'[p].resp
                /\ bookings' = bookings /\ moves' = moves
       /\ \A s \in SlotIds : (slots[s] /\ ~slots'[s]) => bookings' = bookings]_vars

\* C25 witness: the slot of a confirmed booking was switched off, the booking
\* is still confirmed, and a create-booking of the move's owner for that slot
\* with a valid phone was rejected for the inactive slot alone
C25_Witness ==
    /\ Len(bookings) = 1
    /\ bookings[1].status = "confirmed"
    /\ ~slots[bookings[1].time_slot]
    /\ req["w1"].op = "book"
    /\ req["w1"].pc = "done"
    /\ req["w1"].slot = bookings[1].time_slot
    /\ req["w1"].resp = {"time_slot_inactive"}

\* the phone syntax of the claim: 8 to 20 characters, each one of '+', a digit
\* 0-9, the space, '(', ')' or '-'
ClaimedPhoneSyntax(value) ==
    /\ Len(value) >= 8
    /\ Len(value) <= 20
    /\ \A i \in 1..Len(value) :
          value[i] \in {"+", "0", "1", "2", "3", "4", "5", "6", "7", "8", "9",
                        " ", "(", ")", "-"}

\* C26: create-booking accepts the phone number iff it is 8 to 20 characters
\* long and every character is '+', a digit 0-9, the space, '(', ')' or '-';
\* every other phone number is rejected as invalid and no booking is inserted
\* for the request
C26_PhoneSyntax ==
    [][\A p \in Workers, caller \in Users, m \in MoveIds, s \in SlotIds,
          phone \in EdgePhones :
          BookStart(p, caller, m, s, phone)
          => /\ "phone_invalid" \in req'[p].resp <=> ~ClaimedPhoneSyntax(phone)
             /\ ~ClaimedPhoneSyntax(phone) => req'[p].pc = "done"]_vars

====
